---- MODULE Spec2Model ----
(***************************************************************************)
(* The persistent task store of the task manager: models.py (Task,        *)
(* Priority, Status) and store.py (TaskStore with its JSON backing file). *)
(*                                                                         *)
(* Encodings.                                                              *)
(*  - An Optional[T] value is a record [some, v]: None is some = FALSE.    *)
(*  - A datetime is [day, sec, us]: the date, the time of day at second   *)
(*    resolution, and the microsecond.                                     *)
(*  - The text of an ISO date string is a sequence of numbers:            *)
(*    <<day>> is "YYYY-MM-DD", <<day, sec>> is "YYYY-MM-DDTHH:MM:SS",      *)
(*    <<day, sec, us>> is "YYYY-MM-DDTHH:MM:SS.ffffff", <<>> is the empty  *)
(*    string and anything longer is text fromisoformat cannot parse.      *)
(*  - A JSON value where a string is expected is [t, s]: t is "string",   *)
(*    "null" or "number" (a number other than 0), s the text.             *)
(*  - The dict _tasks is a sequence of [key, val] entries in insertion    *)
(*    order, with at most one entry per key.                              *)
(***************************************************************************)
EXTENDS Integers, Sequences, FiniteSets, TLC

\* ---------------------------------------------------------------- bounds

\* add_task is called while the next-id counter is at most MaxId.
MaxId == 2
\* update_task and mark_completed find their task at most MaxUpdates times.
MaxUpdates == 1

\* ------------------------------------------------------------- models.py

PriorityMembers == {"LOW", "MEDIUM", "HIGH"}
StatusMembers == {"PENDING", "IN_PROGRESS", "COMPLETED"}

\* Priority.X.value: the string token of a member.
Priority_value(p) ==
    CASE p = "LOW" -> "low"
      [] p = "MEDIUM" -> "medium"
      [] p = "HIGH" -> "high"

\* Status.X.value: the string token of a member.
Status_value(s) ==
    CASE s = "PENDING" -> "pending"
      [] s = "IN_PROGRESS" -> "in_progress"
      [] s = "COMPLETED" -> "completed"

\* Priority(token): the member with that value; ValueError when there is none.
Priority_ok(tok) == \E p \in PriorityMembers : Priority_value(p) = tok
Priority_of(tok) == CHOOSE p \in PriorityMembers : Priority_value(p) = tok

\* Status(token): the member with that value; ValueError when there is none.
Status_ok(tok) == \E s \in StatusMembers : Status_value(s) = tok
Status_of(tok) == CHOOSE s \in StatusMembers : Status_value(s) = tok

Some(x) == [some |-> TRUE, v |-> x]

NoDatetime == [day |-> 0, sec |-> 0, us |-> 0]
NoneDatetime == [some |-> FALSE, v |-> NoDatetime]
NoneStr == [some |-> FALSE, v |-> ""]
NoneTags == [some |-> FALSE, v |-> <<>>]

\* The instants at which the clock is read, in order; datetime.now() when
\* the clock reads c is Instant(c).
Timeline ==
    <<[day |-> 0, sec |-> 0, us |-> 0],
      [day |-> 0, sec |-> 1, us |-> 1]>>
Instant(c) == Timeline[c]

\* Task with the two default factories run in the other order.
Task_UpdatedFirst(id, title, description, priority, due_date, tags, c1, c2) ==
    [id |-> id,
     title |-> title,
     description |-> description,
     priority |-> priority,
     status |-> "PENDING",
     due_date |-> due_date,
     created_at |-> Instant(c2),
     updated_at |-> Instant(c1),
     tags |-> tags]

\* The Task dataclass: created_at and updated_at each come from their own
\* default_factory call of datetime.now(), at clock readings c1 and c2.
Task(id, title, description, priority, due_date, tags, c1, c2) ==
    [id |-> id,
     title |-> title,
     description |-> description,
     priority |-> priority,
     status |-> "PENDING",
     due_date |-> due_date,
     created_at |-> Instant(c1),
     updated_at |-> Instant(c2),
     tags |-> tags]

\* ------------------------------------------------------- the dict _tasks

RECURSIVE DictIndex(_, _, _)
\* The position of key k in dict d at or after position i, 0 when absent.
DictIndex(d, k, i) ==
    IF i > Len(d) THEN 0
    ELSE IF d[i].key = k THEN i
    ELSE DictIndex(d, k, i + 1)

DictHas(d, k) == DictIndex(d, k, 1) # 0
DictGet(d, k) == d[DictIndex(d, k, 1)].val

\* d[k] = v done as d.pop(k) and an insert: the key always goes last.
DictSet_Reinsert(d, k, v) ==
    Append(SelectSeq(d, LAMBDA e : e.key # k), [key |-> k, val |-> v])

\* d[k] = v: a present key keeps its position, a new key goes last.
DictSet(d, k, v) ==
    IF DictHas(d, k)
    THEN [d EXCEPT ![DictIndex(d, k, 1)] = [key |-> k, val |-> v]]
    ELSE Append(d, [key |-> k, val |-> v])

\* d.popitem() in place of del d[k]: the last entry goes.
DictDel_PopItem(d, k) == SubSeq(d, 1, Len(d) - 1)

\* del d[k] for a present key.
DictDel(d, k) ==
    LET i == DictIndex(d, k, 1)
    IN  SubSeq(d, 1, i - 1) \o SubSeq(d, i + 1, Len(d))

\* list(d.values())
DictValues(d) == [i \in 1..Len(d) |-> d[i].val]

\* ------------------------------------------------- store.py: persistence

\* isoformat with timespec="seconds": the microseconds are never written.
isoformat_Seconds(dt) == <<dt.day, dt.sec>>

\* datetime.isoformat(): the microseconds are written only when not 0.
isoformat(dt) ==
    IF dt.us = 0 THEN <<dt.day, dt.sec>> ELSE <<dt.day, dt.sec, dt.us>>

\* fromisoformat that keeps the date and drops the time of day.
fromisoformat_DateOnly(text) == [day |-> text[1], sec |-> 0, us |-> 0]

\* datetime.fromisoformat(text) parses a date, a date and time, or a date and
\* time with microseconds; anything else is a ValueError.
fromisoformat_ok(text) == Len(text) \in 1..3
fromisoformat(text) ==
    [day |-> text[1],
     sec |-> IF Len(text) >= 2 THEN text[2] ELSE 0,
     us |-> IF Len(text) >= 3 THEN text[3] ELSE 0]

JString(text) == [t |-> "string", s |-> text]
JNull == [t |-> "null", s |-> <<>>]
JNumber == [t |-> "number", s |-> <<>>]

FieldNames ==
    {"id", "title", "description", "priority", "status", "due_date",
     "created_at", "updated_at", "tags"}

\* One element of the "tasks" list written by _save_to_file.
TaskToJson(task) ==
    [shape |-> "object",
     keys |-> FieldNames,
     id |-> task.id,
     title |-> task.title,
     description |-> task.description,
     priority |-> Priority_value(task.priority),
     status |-> Status_value(task.status),
     due_date |-> IF task.due_date.some
                  THEN JString(isoformat(task.due_date.v)) ELSE JNull,
     created_at |-> JString(isoformat(task.created_at)),
     updated_at |-> JString(isoformat(task.updated_at)),
     tags |-> task.tags]

\* The content of the backing file: absent, text that is not JSON
\* ("garbage"), a JSON array, or a JSON object with the keys in `keys`.
NoFile ==
    [top |-> "absent", keys |-> {}, next_id |-> 0, tasks_t |-> "array",
     tasks |-> <<>>]

\* json.dump(data, f) in _save_to_file: the document of the whole store.
SaveDoc(d, n) ==
    [top |-> "object",
     keys |-> {"next_id", "tasks"},
     next_id |-> n,
     tasks_t |-> "array",
     tasks |-> [i \in 1..Len(d) |-> TaskToJson(d[i].val)]]

\* The first exception raised while the loop body of _load_from_file builds
\* the Task of one record, "" when there is none. Python evaluates
\* task_data.get("due_date") first and then the keyword arguments in order.
RecordExc(r) ==
    IF r.shape # "object" THEN "AttributeError"
    ELSE IF "id" \notin r.keys THEN "KeyError"
    ELSE IF "title" \notin r.keys THEN "KeyError"
    ELSE IF "priority" \notin r.keys THEN "KeyError"
    ELSE IF ~Priority_ok(r.priority) THEN "ValueError"
    ELSE IF "status" \notin r.keys THEN "KeyError"
    ELSE IF ~Status_ok(r.status) THEN "ValueError"
    ELSE IF "due_date" \in r.keys /\ r.due_date.t = "number" THEN "TypeError"
    ELSE IF "due_date" \in r.keys /\ r.due_date.t = "string"
            /\ r.due_date.s # <<>> /\ ~fromisoformat_ok(r.due_date.s)
         THEN "ValueError"
    ELSE IF "created_at" \notin r.keys THEN "KeyError"
    ELSE IF r.created_at.t # "string" THEN "TypeError"
    ELSE IF ~fromisoformat_ok(r.created_at.s) THEN "ValueError"
    ELSE IF "updated_at" \notin r.keys THEN "KeyError"
    ELSE IF r.updated_at.t # "string" THEN "TypeError"
    ELSE IF ~fromisoformat_ok(r.updated_at.s) THEN "ValueError"
    ELSE ""

\* The Task built from one record that raises nothing: .get() defaults for
\* description and tags, a falsy or missing due_date is None.
RecordTask(r) ==
    [id |-> r.id,
     title |-> r.title,
     description |-> IF "description" \in r.keys THEN r.description ELSE "",
     priority |-> Priority_of(r.priority),
     status |-> Status_of(r.status),
     due_date |-> IF "due_date" \in r.keys /\ r.due_date.t = "string"
                     /\ r.due_date.s # <<>>
                  THEN Some(fromisoformat(r.due_date.s)) ELSE NoneDatetime,
     created_at |-> fromisoformat(r.created_at.s),
     updated_at |-> fromisoformat(r.updated_at.s),
     tags |-> IF "tags" \in r.keys THEN r.tags ELSE <<>>]

RECURSIVE LoadRecords_SkipBad(_, _, _)
\* LoadRecords that leaves out a record that raises and goes on.
LoadRecords_SkipBad(recs, i, d) ==
    IF i > Len(recs) THEN [tasks |-> d, exc |-> ""]
    ELSE IF RecordExc(recs[i]) # "" THEN LoadRecords_SkipBad(recs, i + 1, d)
    ELSE LoadRecords_SkipBad(recs, i + 1,
             DictSet(d, RecordTask(recs[i]).id, RecordTask(recs[i])))

RECURSIVE LoadRecords(_, _, _)
\* The for loop of _load_from_file from record i on, with dict d so far:
\* [tasks, exc], exc the exception that ended the loop ("" for none).
LoadRecords(recs, i, d) ==
    IF i > Len(recs) THEN [tasks |-> d, exc |-> ""]
    ELSE LET e == RecordExc(recs[i])
             t == RecordTask(recs[i])
         IN  IF e # "" THEN [tasks |-> d, exc |-> e]
             ELSE LoadRecords(recs, i + 1, DictSet(d, t.id, t))

\* except (json.JSONDecodeError, KeyError, ValueError)
Caught(exc) == exc \in {"JSONDecodeError", "KeyError", "ValueError"}

RECURSIVE MaxKey(_, _)
\* The largest key of dict d from position i on, 0 for none.
MaxKey(d, i) ==
    IF i > Len(d) THEN 0
    ELSE IF d[i].key > MaxKey(d, i + 1) THEN d[i].key ELSE MaxKey(d, i + 1)

\* LoadTry with the counter recomputed from the loaded tasks (largest id
\* plus one) instead of read from "next_id".
LoadTry_CounterFromTasks(doc) ==
    IF doc.top = "garbage"
    THEN [tasks |-> <<>>, next_id |-> 1, exc |-> "JSONDecodeError"]
    ELSE IF doc.top # "object"
    THEN [tasks |-> <<>>, next_id |-> 1, exc |-> "AttributeError"]
    ELSE LET recs == IF "tasks" \in doc.keys THEN doc.tasks ELSE <<>>
             r == LoadRecords(recs, 1, <<>>)
         IN  IF "tasks" \in doc.keys /\ doc.tasks_t # "array"
             THEN [tasks |-> <<>>, next_id |-> 1, exc |-> "TypeError"]
             ELSE [tasks |-> r.tasks, next_id |-> MaxKey(r.tasks, 1) + 1,
                   exc |-> r.exc]

\* The try block of _load_from_file on an existing file, started from the
\* constructor's empty dict: [tasks, next_id, exc].
LoadTry(doc) ==
    IF doc.top = "garbage"
    THEN [tasks |-> <<>>, next_id |-> 1, exc |-> "JSONDecodeError"]
    ELSE IF doc.top # "object"
    THEN [tasks |-> <<>>, next_id |-> 1, exc |-> "AttributeError"]
    ELSE LET n == IF "next_id" \in doc.keys THEN doc.next_id ELSE 1
             recs == IF "tasks" \in doc.keys THEN doc.tasks ELSE <<>>
             r == LoadRecords(recs, 1, <<>>)
         IN  IF "tasks" \in doc.keys /\ doc.tasks_t # "array"
             THEN [tasks |-> <<>>, next_id |-> n, exc |-> "TypeError"]
             ELSE [tasks |-> r.tasks, next_id |-> n, exc |-> r.exc]

\* _load_from_file, called by __init__ on the fresh store: [tasks, next_id,
\* exc], exc the exception that leaves the constructor ("" for none).
LoadFromFile(doc) ==
    IF doc.top = "absent" THEN [tasks |-> <<>>, next_id |-> 1, exc |-> ""]
    ELSE LET r == LoadTry(doc)
         IN  IF Caught(r.exc) THEN [tasks |-> <<>>, next_id |-> 1, exc |-> ""]
             ELSE r

\* ------------------------------------------------------ store.py: state

VARIABLES
    tasks,      \* self._tasks: the dict of Task by id, in insertion order
    next_id,    \* self._next_id
    file,       \* the content of self._storage_file
    alive,      \* a constructed TaskStore exists
    now,        \* the last reading of the clock
    updates,    \* how many times update_task has found its task
    ret,        \* the last call: its name, id argument and result
    added       \* the ids add_task has returned so far, in order

vars == <<tasks, next_id, file, alive, now, updates, ret, added>>

\* ----------------------------------------------------------- the inputs

\* A due date as the prompt builds it: a day at midnight.
Due1 == [day |-> 1, sec |-> 0, us |-> 0]

\* The calls of add_task: title, description, priority, tags, due_date.
AddCalls ==
    {[title |-> "Write report", description |-> "", priority |-> "HIGH",
      tags |-> <<>>, due_date |-> NoneDatetime],
     [title |-> "", description |-> "notes", priority |-> "LOW",
      tags |-> <<"x", "y">>, due_date |-> Some(Due1)]}

NoUpdate ==
    [title |-> NoneStr, description |-> NoneStr, priority |-> NoneStr,
     status |-> NoneStr, due_date |-> NoneDatetime, clear_due_date |-> FALSE,
     tags |-> NoneTags]

\* The calls of update_task: each keyword argument given or left None.
UpdateCalls ==
    {[NoUpdate EXCEPT !.status = Some("IN_PROGRESS")],
     [NoUpdate EXCEPT !.due_date = Some(Due1)],
     [NoUpdate EXCEPT !.clear_due_date = TRUE],
     [NoUpdate EXCEPT !.due_date = Some(Due1), !.clear_due_date = TRUE],
     [NoUpdate EXCEPT !.title = Some(""), !.description = Some("later"),
                      !.priority = Some("MEDIUM"), !.tags = Some(<<"z">>)]}

\* The ids the callers pass: every id the store can hold and one it cannot.
Ids == 1..next_id

\* datetime.now(): the clock has not moved since reading c, or has moved on.
Reads(c) == {c, IF c < Len(Timeline) THEN c + 1 ELSE c}

\* --------------------------------------------------- results of a call

\* What a call returns: a Task (n is its id), None, a bool (flag), an int
\* (n), or an exception that leaves the call (exc).
RetTask(t) == [kind |-> "Task", flag |-> FALSE, n |-> t.id, exc |-> ""]
RetNone == [kind |-> "None", flag |-> FALSE, n |-> 0, exc |-> ""]
RetBool(b) == [kind |-> "bool", flag |-> b, n |-> 0, exc |-> ""]
RetInt(k) == [kind |-> "int", flag |-> FALSE, n |-> k, exc |-> ""]
RetRaise(e) == [kind |-> "raise", flag |-> FALSE, n |-> 0, exc |-> e]

\* A call: its name, the id passed (0 when it takes none) and its result.
Call(op, id, result) == [op |-> op, id |-> id, result |-> result]

\* ------------------------------------------------ store.py: operations

\* _save_to_file: the file after the write.
save_to_file(d, n) == SaveDoc(d, n)

\* add_task without the increment of the counter.
add_task_next_id_Stuck(n) == n

\* The counter after add_task has used n.
add_task_next_id(n) == n + 1

\* add_task storing the task after the increment: under the key n + 1.
add_task_store_AfterIncrement(d, n, task) == DictSet(d, n + 1, task)

\* The dict after add_task has stored the new task under the counter n.
add_task_store(d, n, task) == DictSet(d, n, task)

\* add_task(a): no check of the arguments; the Task gets the counter as id,
\* is stored under it, the counter moves on and the store is saved.
add_task(a) ==
    /\ alive
    /\ next_id <= MaxId
    /\ \E c1 \in Reads(now) : \E c2 \in Reads(c1) :
         LET task == Task(next_id, a.title, a.description, a.priority,
                          a.due_date, a.tags, c1, c2)
         IN  /\ tasks' = add_task_store(tasks, next_id, task)
             /\ next_id' = add_task_next_id(next_id)
             /\ file' = save_to_file(tasks', next_id')
             /\ now' = c2
             /\ ret' = Call("add_task", 0, RetTask(task))
             /\ added' = Append(added, task.id)
    /\ UNCHANGED <<alive, updates>>

\* get_task that takes the task out of the dict (dict.pop for dict.get).
get_task_Pop(id) ==
    /\ alive
    /\ ret' = Call("get_task", id, IF DictHas(tasks, id)
                                   THEN RetTask(DictGet(tasks, id)) ELSE RetNone)
    /\ tasks' = IF DictHas(tasks, id) THEN DictDel(tasks, id) ELSE tasks
    /\ UNCHANGED <<next_id, file, alive, now, updates, added>>

\* get_task(id): self._tasks.get(task_id).
get_task(id) ==
    /\ alive
    /\ ret' = Call("get_task", id, IF DictHas(tasks, id) THEN RetTask(DictGet(tasks, id))
                   ELSE RetNone)
    /\ UNCHANGED <<tasks, next_id, file, alive, now, updates, added>>

\* update_due_date with the two branches in the other order: a due date
\* passed along with the clear flag is set.
update_due_date_ValueFirst(old, u) ==
    IF u.due_date.some THEN u.due_date
    ELSE IF u.clear_due_date THEN NoneDatetime
    ELSE old

\* The due_date of a task after update_task with arguments u.
update_due_date(old, u) ==
    IF u.clear_due_date THEN NoneDatetime
    ELSE IF u.due_date.some THEN u.due_date
    ELSE old

\* update_fields without the "is not None" test on description: the
\* default of an argument left out is stored.
update_fields_Unguarded(task, u, c) ==
    [id |-> task.id,
     title |-> IF u.title.some THEN u.title.v ELSE task.title,
     description |-> u.description.v,
     priority |-> IF u.priority.some THEN u.priority.v ELSE task.priority,
     status |-> IF u.status.some THEN u.status.v ELSE task.status,
     due_date |-> update_due_date(task.due_date, u),
     created_at |-> task.created_at,
     updated_at |-> Instant(c),
     tags |-> IF u.tags.some THEN u.tags.v ELSE task.tags]

\* update_fields that stamps updated_at only when a field got a new value.
update_fields_StampOnChange(task, u, c) ==
    LET t == [id |-> task.id,
              title |-> IF u.title.some THEN u.title.v ELSE task.title,
              description |-> IF u.description.some THEN u.description.v
                              ELSE task.description,
              priority |-> IF u.priority.some THEN u.priority.v
                           ELSE task.priority,
              status |-> IF u.status.some THEN u.status.v ELSE task.status,
              due_date |-> update_due_date(task.due_date, u),
              created_at |-> task.created_at,
              updated_at |-> task.updated_at,
              tags |-> IF u.tags.some THEN u.tags.v ELSE task.tags]
    IN  IF t = task THEN t ELSE [t EXCEPT !.updated_at = Instant(c)]

\* The task after update_task with arguments u, the clock reading c.
update_fields(task, u, c) ==
    [id |-> task.id,
     title |-> IF u.title.some THEN u.title.v ELSE task.title,
     description |-> IF u.description.some THEN u.description.v
                     ELSE task.description,
     priority |-> IF u.priority.some THEN u.priority.v ELSE task.priority,
     status |-> IF u.status.some THEN u.status.v ELSE task.status,
     due_date |-> update_due_date(task.due_date, u),
     created_at |-> task.created_at,
     updated_at |-> Instant(c),
     tags |-> IF u.tags.some THEN u.tags.v ELSE task.tags]

\* update_task that stamps updated_at on every task of the store when it
\* updates one.
update_body_StampAll(op, id, u) ==
    /\ alive
    /\ IF ~DictHas(tasks, id)
       THEN /\ ret' = Call(op, id, RetNone)
            /\ UNCHANGED <<tasks, next_id, file, alive, now, updates, added>>
       ELSE \E c \in Reads(now) :
              LET task == update_fields(DictGet(tasks, id), u, c)
                  d == DictSet(tasks, id, task)
              IN  /\ tasks' = [i \in 1..Len(d) |->
                                 [d[i] EXCEPT !.val.updated_at = Instant(c)]]
                  /\ file' = save_to_file(tasks', next_id)
                  /\ now' = c
                  /\ ret' = Call(op, id, RetTask(task))
                  /\ updates < MaxUpdates
                  /\ updates' = updates + 1
                  /\ UNCHANGED <<next_id, alive, added>>

\* The body of update_task, shared with mark_completed, recorded as call op.
update_body(op, id, u) ==
    /\ alive
    /\ IF ~DictHas(tasks, id)
       THEN /\ ret' = Call(op, id, RetNone)
            /\ UNCHANGED <<tasks, next_id, file, alive, now, updates, added>>
       ELSE \E c \in Reads(now) :
              LET task == update_fields(DictGet(tasks, id), u, c)
              IN  /\ tasks' = DictSet(tasks, id, task)
                  /\ file' = save_to_file(tasks', next_id)
                  /\ now' = c
                  /\ ret' = Call(op, id, RetTask(task))
                  /\ updates < MaxUpdates
                  /\ updates' = updates + 1
                  /\ UNCHANGED <<next_id, alive, added>>

update_task(id, u) == update_body("update_task", id, u)

\* mark_completed(id): update_task(task_id, status=Status.COMPLETED).
mark_completed(id) ==
    update_body("mark_completed", id, [NoUpdate EXCEPT !.status = Some("COMPLETED")])

\* delete_task without the membership test: del raises KeyError.
delete_task_NoTest(id) ==
    /\ alive
    /\ IF DictHas(tasks, id)
       THEN /\ tasks' = DictDel(tasks, id)
            /\ file' = save_to_file(tasks', next_id)
            /\ ret' = Call("delete_task", id, RetBool(TRUE))
       ELSE /\ ret' = Call("delete_task", id, RetRaise("KeyError"))
            /\ UNCHANGED <<tasks, file>>
    /\ UNCHANGED <<next_id, alive, now, updates, added>>

\* delete_task without its call of _save_to_file.
delete_task_NoSave(id) ==
    /\ alive
    /\ IF DictHas(tasks, id)
       THEN /\ tasks' = DictDel(tasks, id)
            /\ ret' = Call("delete_task", id, RetBool(TRUE))
       ELSE /\ ret' = Call("delete_task", id, RetBool(FALSE))
            /\ UNCHANGED tasks
    /\ UNCHANGED <<next_id, file, alive, now, updates, added>>

\* delete_task(id): removes and saves when the id is a key, else only False.
delete_task(id) ==
    /\ alive
    /\ IF DictHas(tasks, id)
       THEN /\ tasks' = DictDel(tasks, id)
            /\ file' = save_to_file(tasks', next_id)
            /\ ret' = Call("delete_task", id, RetBool(TRUE))
       ELSE /\ ret' = Call("delete_task", id, RetBool(FALSE))
            /\ UNCHANGED <<tasks, file>>
    /\ UNCHANGED <<next_id, alive, now, updates, added>>

\* clear_all that also starts the counter again.
clear_all_next_id_Reset(n) == 1

\* The counter after clear_all.
clear_all_next_id(n) == n

\* clear_all that takes the count after emptying the dict.
clear_all_CountAfter ==
    /\ alive
    /\ tasks' = <<>>
    /\ next_id' = clear_all_next_id(next_id)
    /\ file' = save_to_file(tasks', next_id')
    /\ ret' = Call("clear_all", 0, RetInt(Len(tasks')))
    /\ UNCHANGED <<alive, now, updates, added>>

\* clear_all(): empties the dict, saves, returns how many tasks there were.
clear_all ==
    /\ alive
    /\ tasks' = <<>>
    /\ next_id' = clear_all_next_id(next_id)
    /\ file' = save_to_file(tasks', next_id')
    /\ ret' = Call("clear_all", 0, RetInt(Len(tasks)))
    /\ UNCHANGED <<alive, now, updates, added>>

\* TaskStore(storage_file): __init__ on the file as it is, also a restart of
\* the program. An exception that leaves _load_from_file leaves the
\* constructor: no store exists then.
TaskStore_init ==
    LET r == LoadFromFile(file)
    IN  /\ tasks' = r.tasks
        /\ next_id' = r.next_id
        /\ alive' = (r.exc = "")
        /\ ret' = Call("__init__", 0, IF r.exc = "" THEN RetNone ELSE RetRaise(r.exc))
        /\ UNCHANGED <<file, now, updates, added>>

\* ------------------------------------------------------- specifications

\* The program started where no backing file exists.
Init ==
    /\ tasks = <<>>
    /\ next_id = 1
    /\ file = NoFile
    /\ alive = TRUE
    /\ now = 1
    /\ updates = 0
    /\ ret = Call("__init__", 0, RetNone)
    /\ added = <<>>

Next ==
    \/ \E a \in AddCalls : add_task(a)
    \/ \E id \in Ids : get_task(id)
    \/ \E id \in Ids, u \in UpdateCalls : update_task(id, u)
    \/ \E id \in Ids : mark_completed(id)
    \/ \E id \in Ids : delete_task(id)
    \/ clear_all
    \/ TaskStore_init

Spec == Init /\ [][Next]_vars

\* ----------------------------------------- the files a store is built on

\* Two tasks as add_task stamps them, and their records as saved.
SampleTask1 == Task(1, "Write report", "", "HIGH", NoneDatetime, <<>>, 1, 2)
SampleTask2 == Task(2, "", "notes", "LOW", Some(Due1), <<"x", "y">>, 2, 2)

\* Text that is no ISO date.
BadText == <<0, 0, 0, 0>>

\* Record r with one thing wrong: a key missing, a token that is no member,
\* a date that is no string or no date, or the record no object at all.
Faulty(r) ==
    {[r EXCEPT !.keys = FieldNames \ {k}] : k \in FieldNames}
    \cup {[r EXCEPT !.priority = "urgent"], [r EXCEPT !.status = "done"],
          [r EXCEPT !.shape = "string"]}
    \cup {[r EXCEPT !.due_date = v] :
            v \in {JNumber, JString(<<>>), JString(BadText)}}
    \cup {[r EXCEPT !.created_at = v] :
            v \in {JNull, JNumber, JString(<<>>), JString(BadText)}}
    \cup {[r EXCEPT !.updated_at = v] :
            v \in {JNull, JNumber, JString(<<>>), JString(BadText)}}

\* The "tasks" lists of the files: saved records, the last one maybe faulty.
TaskLists ==
    {<<>>, <<TaskToJson(SampleTask1)>>,
     <<TaskToJson(SampleTask1), TaskToJson(SampleTask2)>>}
    \cup {<<f>> : f \in Faulty(TaskToJson(SampleTask1))}
    \cup {<<TaskToJson(SampleTask1), f>> : f \in Faulty(TaskToJson(SampleTask2))}

\* The files: none, text that is no JSON, a JSON array, and objects with or
\* without "next_id" and with "tasks" a list, a number or missing.
Docs ==
    {NoFile,
     [NoFile EXCEPT !.top = "garbage"],
     [NoFile EXCEPT !.top = "array"]}
    \cup {[top |-> "object", keys |-> {"next_id", "tasks"}, next_id |-> n,
           tasks_t |-> "array", tasks |-> ts] : n \in {1, 3}, ts \in TaskLists}
    \cup {[top |-> "object", keys |-> {"tasks"}, next_id |-> 0,
           tasks_t |-> "array", tasks |-> ts] : ts \in TaskLists}
    \cup {[top |-> "object", keys |-> ks \cup {"tasks"}, next_id |-> 3,
           tasks_t |-> "number", tasks |-> <<>>] : ks \in SUBSET {"next_id"}}
    \cup {[top |-> "object", keys |-> ks, next_id |-> 3,
           tasks_t |-> "array", tasks |-> <<>>] : ks \in SUBSET {"next_id"}}

\* The program about to build its store on any of the files.
InitLoad ==
    /\ file \in Docs
    /\ alive = FALSE
    /\ tasks = <<>>
    /\ next_id = 1
    /\ now = 1
    /\ updates = 0
    /\ ret = Call("start", 0, RetNone)
    /\ added = <<>>

NextLoad ==
    \/ TaskStore_init
    \/ \E a \in AddCalls : add_task(a)

SpecLoad == InitLoad /\ [][NextLoad]_vars

\* ----------------------------------------------------------------- claims

\* The live store as _load_from_file would have to rebuild it.
Live == [tasks |-> tasks, next_id |-> next_id, exc |-> ""]

\* C1: starting without a backing file, the ids returned by successive
\* add_task calls are 1, 2, 3, ...: the i-th call returns i, whatever
\* delete_task, clear_all or update_task calls happen in between.
C1_MonotonicIds == \A i \in 1..Len(added) : added[i] = i

\* An add_task has returned 2 after task 1 was deleted.
C1_Witness ==
    /\ ret.op = "add_task"
    /\ ret.result.n = 2
    /\ added = <<1, 2>>
    /\ ~DictHas(tasks, 1)

\* C2: an id once returned by add_task is never returned by a later
\* add_task, also after a delete, a clear or a restart on the same file.
C2_NoIdReuse ==
    [][ret'.op = "add_task" =>
          \A i \in 1..Len(added) : added[i] # ret'.result.n]_vars

\* A restart has reloaded the counter 3 from the file of a store whose two
\* tasks are gone.
C2_Witness ==
    /\ ret.op = "__init__"
    /\ alive
    /\ added = <<1, 2>>
    /\ tasks = <<>>
    /\ next_id = 3

\* C3: saving the store and loading the file into a new store gives the
\* same tasks (ids, every field, order) and the same next-id counter.
C3_RoundTrip == alive => LoadFromFile(SaveDoc(tasks, next_id)) = Live

\* Two tasks, one with a due date and tags, one stamped with microseconds,
\* after an update.
C3_Witness ==
    /\ alive
    /\ Len(tasks) = 2
    /\ updates = 1
    /\ \E i \in 1..2 : tasks[i].val.due_date.some /\ tasks[i].val.tags # <<>>
    /\ \E i \in 1..2 : tasks[i].val.updated_at.us # 0
    /\ \E i \in 1..2 : tasks[i].val.created_at.us = 0

\* The call that ret records has changed the store and returned.
Wrote ==
    \/ ret.op \in {"add_task", "clear_all"}
    \/ ret.op \in {"update_task", "mark_completed"} /\ ret.result.kind = "Task"
    \/ ret.op = "delete_task" /\ ret.result.flag

\* C4: when add_task, a successful update_task or delete_task, or clear_all
\* has returned, the file holds the whole collection and the counter, and
\* at any point between calls a store built from the file is the live one.
C4_WriteThrough ==
    alive => /\ Wrote => file = SaveDoc(tasks, next_id)
             /\ LoadFromFile(file) = Live

\* delete_task has removed one of two tasks and the file holds the other.
C4_Witness ==
    /\ ret.op = "delete_task"
    /\ ret.result.flag
    /\ Len(tasks) = 1
    /\ Len(file.tasks) = 1
\* C5: add_task with an empty title fails with a ValidationError and has
\* no side effect: no task stored, counter not advanced, file not written.
C5_EmptyTitleRejected ==
    [][\A a \in AddCalls :
          (a.title = "" /\ add_task(a)) =>
              /\ ret'.result.kind = "raise"
              /\ UNCHANGED <<tasks, next_id, file>>]_vars

\* The keyword arguments of u other than status are all left out.
StatusOnly(u) ==
    /\ u.status.some
    /\ ~u.title.some /\ ~u.description.some /\ ~u.priority.some
    /\ ~u.due_date.some /\ ~u.clear_due_date /\ ~u.tags.some

\* Tasks t0 and t1 have the same title, description, priority, due date
\* and tags.
SameOtherFields(t0, t1) ==
    /\ t1.title = t0.title
    /\ t1.description = t0.description
    /\ t1.priority = t0.priority
    /\ t1.due_date = t0.due_date
    /\ t1.tags = t0.tags

\* C6: update_task on an existing id with only status=X sets the status to
\* X and leaves title, description, priority, due_date and tags as they
\* were (mark_completed is that call with X = COMPLETED).
C6_StatusOnlyFrame ==
    [][/\ ret'.op = "update_task" =>
            \A id \in Ids, u \in UpdateCalls :
                (/\ StatusOnly(u) /\ DictHas(tasks, id) /\ ret'.id = id
                 /\ update_task(id, u)) =>
                    /\ DictHas(tasks', id)
                    /\ DictGet(tasks', id).status = u.status.v
                    /\ SameOtherFields(DictGet(tasks, id), DictGet(tasks', id))
       /\ ret'.op = "mark_completed" =>
            \A id \in Ids :
                (DictHas(tasks, id) /\ ret'.id = id /\ mark_completed(id)) =>
                    /\ DictHas(tasks', id)
                    /\ DictGet(tasks', id).status = "COMPLETED"
                    /\ SameOtherFields(DictGet(tasks, id), DictGet(tasks', id))]_vars

\* update_task has set the status of the task created with a description,
\* tags and a due date, which it still has.
C6_Witness ==
    /\ ret.op = "update_task"
    /\ ret.result.kind = "Task"
    /\ DictHas(tasks, ret.id)
    /\ DictGet(tasks, ret.id).status = "IN_PROGRESS"
    /\ DictGet(tasks, ret.id).description = "notes"
    /\ DictGet(tasks, ret.id).tags = <<"x", "y">>
    /\ DictGet(tasks, ret.id).due_date = Some(Due1)

\* C7: after update_task on an existing id the due date is absent when
\* clear_due_date is true, whatever due_date was passed; else it is the
\* due_date passed, when one was; else it is what it was.
C7_DueDateContract ==
    [][ret'.op = "update_task" =>
          \A id \in Ids, u \in UpdateCalls :
              (DictHas(tasks, id) /\ ret'.id = id /\ update_task(id, u)) =>
                  /\ DictHas(tasks', id)
                  /\ u.clear_due_date => ~DictGet(tasks', id).due_date.some
                  /\ (~u.clear_due_date /\ u.due_date.some) =>
                         DictGet(tasks', id).due_date = u.due_date
                  /\ (~u.clear_due_date /\ ~u.due_date.some) =>
                         DictGet(tasks', id).due_date =
                             DictGet(tasks, id).due_date]_vars

\* update_task has taken the due date off the task that was created with
\* one.
C7_Witness ==
    /\ ret.op = "update_task"
    /\ ret.result.kind = "Task"
    /\ DictHas(tasks, ret.id)
    /\ DictGet(tasks, ret.id).description = "notes"
    /\ ~DictGet(tasks, ret.id).due_date.some

\* The call recorded in the next state was passed an id that is no key.
NotFoundCall ==
    /\ ret'.op \in {"get_task", "update_task", "mark_completed", "delete_task"}
    /\ ~DictHas(tasks, ret'.id)

\* C8: get_task, update_task, mark_completed and delete_task with an id
\* that is not in the store raise nothing, return None (False for
\* delete_task) and leave the collection, the counter and the file alone.
C8_NotFoundSignalled ==
    [][NotFoundCall =>
          /\ ret'.result = IF ret'.op = "delete_task" THEN RetBool(FALSE)
                           ELSE RetNone
          /\ UNCHANGED <<tasks, next_id, file>>]_vars

\* update_task has returned None for an id that a store with a task in it
\* does not hold.
C8_Witness ==
    /\ ret.op = "update_task"
    /\ ret.result.kind = "None"
    /\ ~DictHas(tasks, ret.id)
    /\ Len(tasks) >= 1

\* Dict d1 is d0 without key k, the other entries as they were, in order.
Removed(d0, d1, k) ==
    /\ Len(d1) = Len(d0) - 1
    /\ \A i \in 1..Len(d1) :
         d1[i] = IF i < DictIndex(d0, k, 1) THEN d0[i] ELSE d0[i + 1]

\* C9: delete_task(id) returns true exactly when id was in the store, which
\* then holds every other task and not this one; on an id already deleted
\* or never there it returns false, raises nothing and changes nothing.
C9_DeleteIdempotent ==
    [][ret'.op = "delete_task" =>
          /\ ret'.result = RetBool(DictHas(tasks, ret'.id))
          /\ ~DictHas(tasks', ret'.id)
          /\ IF DictHas(tasks, ret'.id)
             THEN Removed(tasks, tasks', ret'.id)
             ELSE UNCHANGED <<tasks, next_id, file>>]_vars

\* delete_task has returned false for an id that add_task once returned
\* and that was deleted since, next to a task that is still there.
C9_Witness ==
    /\ ret.op = "delete_task"
    /\ ~ret.result.flag
    /\ \E i \in 1..Len(added) : added[i] = ret.id
    /\ ~DictHas(tasks, ret.id)
    /\ Len(tasks) = 1
\* A value that should be the text of a date is a number or no date.
BadDate(v) == v.t = "number" \/ (v.t = "string" /\ Len(v.s) > 3)

\* Record r is no object, or holds a token that is no member, or a date
\* that is no string or no date.
BadRecord(r) ==
    \/ r.shape # "object"
    \/ "priority" \in r.keys /\ r.priority \notin {"low", "medium", "high"}
    \/ "status" \in r.keys
       /\ r.status \notin {"pending", "in_progress", "completed"}
    \/ "due_date" \in r.keys /\ BadDate(r.due_date)
    \/ "created_at" \in r.keys
       /\ (BadDate(r.created_at) \/ r.created_at.t = "null" \/ r.created_at.s = <<>>)
    \/ "updated_at" \in r.keys
       /\ (BadDate(r.updated_at) \/ r.updated_at.t = "null" \/ r.updated_at.s = <<>>)

\* The file is no JSON, or JSON of the wrong structure: no object, "tasks"
\* no list, or a record as in BadRecord.
Malformed(doc) ==
    \/ doc.top \in {"garbage", "array"}
    \/ /\ doc.top = "object"
       /\ "tasks" \in doc.keys
       /\ \/ doc.tasks_t # "array"
          \/ \E i \in 1..Len(doc.tasks) : BadRecord(doc.tasks[i])

\* C10: building a TaskStore on a file that is invalid JSON or has an
\* invalid structure, as a whole or in any record, raises nothing: the store
\* has no tasks and the counter 1.
C10_CorruptFileRecovered ==
    (ret.op = "__init__" /\ Malformed(file)) =>
        /\ ret.result.kind # "raise"
        /\ alive
        /\ tasks = <<>>
        /\ next_id = 1

\* A value that should be the text of a date is a string that is no date.
UnparseableDate(v) == v.t = "string" /\ ~fromisoformat_ok(v.s)

\* Record r, an object, lacks one of the Task fields, or holds an enum token
\* that is no member or a date string that is no date.
IncompleteRecord(r) ==
    /\ r.shape = "object"
    /\ \/ r.keys # FieldNames
       \/ ~Priority_ok(r.priority)
       \/ ~Status_ok(r.status)
       \/ UnparseableDate(r.due_date)
       \/ UnparseableDate(r.created_at)
       \/ UnparseableDate(r.updated_at)

\* The document, a JSON object, lacks "next_id" or "tasks", or one of its
\* records is as in IncompleteRecord.
Incomplete(doc) ==
    /\ doc.top = "object"
    /\ \/ doc.keys # {"next_id", "tasks"}
       \/ /\ doc.tasks_t = "array"
          /\ \E i \in 1..Len(doc.tasks) : IncompleteRecord(doc.tasks[i])

\* C11: a store built on a document that lacks a required key ("next_id",
\* "tasks", a Task field of a record) or holds an unparseable enum or date
\* value has no tasks and the counter 1: no record is kept, no default
\* stands in for a missing key.
C11_LoadSingleFailureUnit ==
    (ret.op = "__init__" /\ Incomplete(file)) =>
        /\ alive
        /\ tasks = <<>>
        /\ next_id = 1

\* --------------------------------------------------- store.py: the reads

\* datetime.date(): the date component.
date(dt) == dt.day

\* date.today() when the clock reads c.
today(c) == date(Instant(c))

\* today + timedelta(days=7)
week_end(t) == t + 7

\* len([t for t in ts if t.status == s]) and the same for a priority.
CountStatus(ts, s) == Len(SelectSeq(ts, LAMBDA t : t.status = s))
CountPriority(ts, p) == Len(SelectSeq(ts, LAMBDA t : t.priority = p))

\* is_overdue without the test of the status.
is_overdue_AnyStatus(task, t) ==
    /\ task.due_date.some
    /\ date(task.due_date.v) < t

\* The condition of the list comprehension of get_overdue_tasks.
is_overdue(task, t) ==
    /\ task.due_date.some
    /\ date(task.due_date.v) < t
    /\ task.status # "COMPLETED"

\* The list get_overdue_tasks returns with the tasks ts on the day t.
Overdue(ts, t) == SelectSeq(ts, LAMBDA task : is_overdue(task, t))

\* is_due_this_week comparing the datetime with midnight of the last day.
is_due_this_week_Midnight(task, t) ==
    /\ task.due_date.some
    /\ t <= date(task.due_date.v)
    /\ \/ date(task.due_date.v) < week_end(t)
       \/ date(task.due_date.v) = week_end(t) /\ task.due_date.v.sec = 0
                                              /\ task.due_date.v.us = 0
    /\ task.status # "COMPLETED"

\* The condition of the list comprehension of get_tasks_due_this_week.
is_due_this_week(task, t) ==
    /\ task.due_date.some
    /\ t <= date(task.due_date.v)
    /\ date(task.due_date.v) <= week_end(t)
    /\ task.status # "COMPLETED"

\* The list get_tasks_due_this_week returns with the tasks ts on the day t.
DueThisWeek(ts, t) == SelectSeq(ts, LAMBDA task : is_due_this_week(task, t))

\* Stats with "pending" counting every task that is not completed.
Stats_PendingIsOpen(ts, t) ==
    [total |-> Len(ts),
     overdue |-> Len(Overdue(ts, t)),
     by_status |-> [pending |-> Len(ts) - CountStatus(ts, "COMPLETED"),
                    in_progress |-> CountStatus(ts, "IN_PROGRESS"),
                    completed |-> CountStatus(ts, "COMPLETED")],
     by_priority |-> [high |-> CountPriority(ts, "HIGH"),
                      medium |-> CountPriority(ts, "MEDIUM"),
                      low |-> CountPriority(ts, "LOW")]]

\* The dict get_stats returns with the tasks ts on the day t.
Stats(ts, t) ==
    [total |-> Len(ts),
     overdue |-> Len(Overdue(ts, t)),
     by_status |-> [pending |-> CountStatus(ts, "PENDING"),
                    in_progress |-> CountStatus(ts, "IN_PROGRESS"),
                    completed |-> CountStatus(ts, "COMPLETED")],
     by_priority |-> [high |-> CountPriority(ts, "HIGH"),
                      medium |-> CountPriority(ts, "MEDIUM"),
                      low |-> CountPriority(ts, "LOW")]]

\* A list of tasks returned: ids are the ids of its tasks, in order.
RetList(ts) ==
    [kind |-> "list", flag |-> FALSE, n |-> Len(ts), exc |-> "",
     ids |-> [i \in 1..Len(ts) |-> ts[i].id]]

\* A dict of counts returned.
RetDict(st) ==
    [kind |-> "dict", flag |-> FALSE, n |-> st.total, exc |-> "", stats |-> st]

\* A read returns its result and leaves the store as it is.
Read(op, result) ==
    /\ alive
    /\ ret' = Call(op, 0, result)
    /\ UNCHANGED <<tasks, next_id, file, alive, now, updates, added>>

get_all_tasks == Read("get_all_tasks", RetList(DictValues(tasks)))

get_overdue_tasks ==
    Read("get_overdue_tasks", RetList(Overdue(DictValues(tasks), today(now))))

get_tasks_due_this_week ==
    Read("get_tasks_due_this_week",
         RetList(DueThisWeek(DictValues(tasks), today(now))))

get_stats == Read("get_stats", RetDict(Stats(DictValues(tasks), today(now))))

\* ------------------------------------------- the stores that are queried

\* Due dates around the day the clock shows (day 0): none, late yesterday,
\* today at midnight, late on the seventh day from today, the eighth day.
QueryDues ==
    {NoneDatetime,
     Some([day |-> 0 - 1, sec |-> 1, us |-> 0]),
     Some([day |-> 0, sec |-> 0, us |-> 0]),
     Some([day |-> 7, sec |-> 1, us |-> 0]),
     Some([day |-> 8, sec |-> 0, us |-> 0])}

\* Task i as add_task and update_task can have left it: every status with
\* every due date, and every status with every priority.
QueryTasks(i) ==
    {[Task(i, "Write report", "", "MEDIUM", d, <<>>, 1, 1) EXCEPT !.status = s] :
        d \in QueryDues, s \in StatusMembers}
    \cup {[Task(i, "Write report", "", p, NoneDatetime, <<>>, 1, 1)
              EXCEPT !.status = s] : p \in PriorityMembers, s \in StatusMembers}

\* The dicts of n tasks added in turn, each as in QueryTasks.
QueryStores(n) ==
    {[i \in 1..n |-> [key |-> i, val |-> f[i]]] :
        f \in {g \in [1..n -> UNION {QueryTasks(i) : i \in 1..n}] :
                  \A i \in 1..n : g[i].id = i}}

\* A store after add_task and update_task calls, saved, on day 0.
InitQuery ==
    /\ \E n \in 0..MaxId : tasks \in QueryStores(n)
    /\ next_id = Len(tasks) + 1
    /\ file = SaveDoc(tasks, next_id)
    /\ alive = TRUE
    /\ now = 1
    /\ updates = 0
    /\ ret = Call("start", 0, RetNone)
    /\ added = [i \in 1..Len(tasks) |-> i]

NextQuery ==
    \/ get_all_tasks
    \/ get_overdue_tasks
    \/ get_tasks_due_this_week
    \/ get_stats

SpecQuery == InitQuery /\ [][NextQuery]_vars

\* C12: get_stats reports per-status counts that sum to total and
\* per-priority counts that sum to total, and total is the number of tasks
\* in the store.
C12_StatsPartition ==
    ret.op = "get_stats" =>
        LET st == ret.result.stats
        IN  /\ st.total = Len(tasks)
            /\ st.by_status.pending + st.by_status.in_progress
                   + st.by_status.completed = st.total
            /\ st.by_priority.high + st.by_priority.medium
                   + st.by_priority.low = st.total

\* get_stats has counted two tasks of different status and priority.
C12_Witness ==
    /\ ret.op = "get_stats"
    /\ ret.result.stats.total = 2
    /\ ret.result.stats.by_status.completed = 1
    /\ ret.result.stats.by_status.in_progress = 1
    /\ ret.result.stats.by_priority.high = 1
    /\ ret.result.stats.by_priority.medium = 1

\* The ids in the list that the last call returned.
Returned == {ret.result.ids[i] : i \in 1..Len(ret.result.ids)}

\* C13: get_overdue_tasks returns exactly the tasks that have a due date
\* whose date is before today's and whose status is not COMPLETED, each
\* once: not a completed task, not one due today or later, not one without
\* a due date.
C13_OverdueExact ==
    ret.op = "get_overdue_tasks" =>
        /\ Cardinality(Returned) = Len(ret.result.ids)
        /\ Returned =
             {tasks[i].key : i \in
                 {j \in 1..Len(tasks) :
                     /\ tasks[j].val.due_date.some
                     /\ tasks[j].val.due_date.v.day < today(now)
                     /\ tasks[j].val.status # "COMPLETED"}}

\* Of two tasks due yesterday, get_overdue_tasks has returned the pending
\* one and not the completed one.
C13_Witness ==
    /\ ret.op = "get_overdue_tasks"
    /\ ret.result.ids = <<1>>
    /\ Len(tasks) = 2
    /\ tasks[1].val.status = "PENDING"
    /\ tasks[2].val.status = "COMPLETED"
    /\ \A i \in 1..2 : tasks[i].val.due_date.some
                       /\ tasks[i].val.due_date.v.day = today(now) - 1

\* C14: get_tasks_due_this_week returns exactly the tasks that have a due
\* date with today <= its date <= today + 7 days and whose status is not
\* COMPLETED, each once.
C14_DueThisWeekExact ==
    ret.op = "get_tasks_due_this_week" =>
        /\ Cardinality(Returned) = Len(ret.result.ids)
        /\ Returned =
             {tasks[i].key : i \in
                 {j \in 1..Len(tasks) :
                     /\ tasks[j].val.due_date.some
                     /\ today(now) <= tasks[j].val.due_date.v.day
                     /\ tasks[j].val.due_date.v.day <= today(now) + 7
                     /\ tasks[j].val.status # "COMPLETED"}}

\* get_tasks_due_this_week has returned a task due today and one due late
\* on the seventh day from today.
C14_Witness ==
    /\ ret.op = "get_tasks_due_this_week"
    /\ ret.result.ids = <<1, 2>>
    /\ tasks[1].val.due_date.v.day = today(now)
    /\ tasks[2].val.due_date.v.day = today(now) + 7
    /\ tasks[2].val.due_date.v.sec > 0

\* C15: every update_task call that finds its task sets the task's
\* updated_at to the time of the call, also when the value passed is the
\* value the field had.
C15_UpdateStamps ==
    [][(ret'.op = "update_task" /\ ret'.result.kind = "Task") =>
          /\ DictHas(tasks', ret'.id)
          /\ DictGet(tasks', ret'.id).updated_at = Instant(now')]_vars

\* update_task has been passed the due date that the task already had, a
\* clock tick after the task was created.
C15_Witness ==
    /\ ret.op = "update_task"
    /\ ret.result.kind = "Task"
    /\ DictHas(tasks, ret.id)
    /\ LET t == DictGet(tasks, ret.id)
       IN  /\ t.description = "notes"
           /\ t.status = "PENDING"
           /\ t.due_date = Some(Due1)
           /\ t.created_at = Instant(1)
           /\ t.updated_at = Instant(2)
           /\ now = 2

\* C16: update_task passed an empty title leaves the title as it was, so a
\* task that has a title keeps one.
C16_EmptyTitleIgnored ==
    [][ret'.op = "update_task" =>
          \A id \in Ids, u \in UpdateCalls :
              (/\ u.title = Some("")
               /\ DictHas(tasks, id)
               /\ DictGet(tasks, id).title # ""
               /\ ret'.id = id
               /\ update_task(id, u)) =>
                  /\ DictGet(tasks', id).title = DictGet(tasks, id).title
                  /\ DictGet(tasks', id).title # ""]_vars

\* C17: the task add_task returns has created_at equal to updated_at and
\* the status PENDING.
C17_CreationStamp ==
    ret.op = "add_task" =>
        /\ DictHas(tasks, ret.result.n)
        /\ DictGet(tasks, ret.result.n).created_at
               = DictGet(tasks, ret.result.n).updated_at
        /\ DictGet(tasks, ret.result.n).status = "PENDING"

\* datetime a <= datetime b.
NotAfter(a, b) ==
    \/ a.day < b.day
    \/ a.day = b.day /\ a.sec < b.sec
    \/ a.day = b.day /\ a.sec = b.sec /\ a.us <= b.us

\* C18: every task in the store has updated_at >= created_at, the clock
\* never going backwards.
C18_UpdatedNotBeforeCreated ==
    \A i \in 1..Len(tasks) :
        NotAfter(tasks[i].val.created_at, tasks[i].val.updated_at)

\* mark_completed has stamped a task a clock tick after its creation, and a
\* restart has loaded it.
C18_Witness ==
    /\ ret.op = "__init__"
    /\ \E i \in 1..Len(tasks) :
         /\ tasks[i].val.status = "COMPLETED"
         /\ tasks[i].val.created_at = Instant(1)
         /\ tasks[i].val.updated_at = Instant(2)

\* C19: a task keeps its id and its created_at for as long as it is in the
\* store, through update_task, mark_completed, the adding and deleting of
\* other tasks, and a restart that loads it from the file.
C19_IdAndCreationFixed ==
    [][tasks' # tasks =>
          \A i \in 1..Len(tasks') :
              /\ tasks'[i].val.id = tasks'[i].key
              /\ DictHas(tasks, tasks'[i].key) =>
                    /\ tasks'[i].val.id = DictGet(tasks, tasks'[i].key).id
                    /\ tasks'[i].val.created_at
                           = DictGet(tasks, tasks'[i].key).created_at]_vars

\* A restart has loaded a task that was created at a time with
\* microseconds and updated since.
C19_Witness ==
    /\ ret.op = "__init__"
    /\ updates = 1
    /\ \E i \in 1..Len(tasks) :
         /\ tasks[i].val.status = "IN_PROGRESS"
         /\ tasks[i].val.created_at = Instant(2)
         /\ tasks[i].val.id = tasks[i].key

\* The program started where no backing file exists, adding, updating,
\* deleting and listing tasks, and restarting.
NextOrder ==
    \/ \E a \in AddCalls : add_task(a)
    \/ \E id \in Ids, u \in UpdateCalls : update_task(id, u)
    \/ \E id \in Ids : delete_task(id)
    \/ get_all_tasks
    \/ TaskStore_init

SpecOrder == Init /\ [][NextOrder]_vars

\* The keys of dict d in its order.
Keys(d) == [i \in 1..Len(d) |-> d[i].key]

UpperLetters == "ABCDEFGHIJKLMNOPQRSTUVWXYZ"
LowerLetters == "abcdefghijklmnopqrstuvwxyz"

\* str.lower() of the one-character string c.
LowerChar(c) ==
    IF \E i \in 1..Len(UpperLetters) : SubSeq(UpperLetters, i, i) = c
    THEN LET i == CHOOSE j \in 1..Len(UpperLetters) :
                      SubSeq(UpperLetters, j, j) = c
         IN  SubSeq(LowerLetters, i, i)
    ELSE c

RECURSIVE lower(_)
\* str.lower()
lower(str) ==
    IF Len(str) = 0 THEN ""
    ELSE LowerChar(SubSeq(str, 1, 1)) \o lower(SubSeq(str, 2, Len(str)))

\* q in str: q is a substring of str.
Contains(q, str) ==
    \E i \in 1..(Len(str) - Len(q) + 1) : SubSeq(str, i, i + Len(q) - 1) = q

\* search_matches comparing the query as typed with the lowered fields.
search_matches_RawQuery(task, query) ==
    \/ Contains(query, lower(task.title))
    \/ Contains(query, lower(task.description))

\* The condition of the list comprehension of search_tasks.
search_matches(task, query) ==
    LET query_lower == lower(query)
    IN  \/ Contains(query_lower, lower(task.title))
        \/ Contains(query_lower, lower(task.description))

get_tasks_by_status(status) ==
    Read("get_tasks_by_status",
         RetList(SelectSeq(DictValues(tasks), LAMBDA t : t.status = status)))

get_tasks_by_priority(priority) ==
    Read("get_tasks_by_priority",
         RetList(SelectSeq(DictValues(tasks), LAMBDA t : t.priority = priority)))

\* search_tasks(query); the call is recorded with its query.
search_tasks(query) ==
    /\ alive
    /\ ret' = [op |-> "search_tasks", id |-> 0, query |-> query,
               result |-> RetList(SelectSeq(DictValues(tasks),
                              LAMBDA t : search_matches(t, query)))]
    /\ UNCHANGED <<tasks, next_id, file, alive, now, updates, added>>

count == Read("count", RetInt(Len(tasks)))

\* --------------------------------------- the stores that the reads see

\* Task i as add_task and update_task can have left it: titles and
\* descriptions in mixed case, each priority and status, due dates or none.
ReadTasks(i) ==
    {Task(i, "Write report", "", "HIGH", NoneDatetime, <<>>, 1, 1),
     [Task(i, "Email team", "Weekly REPORT", "LOW",
           Some([day |-> 0 - 1, sec |-> 0, us |-> 0]), <<"x">>, 1, 2)
         EXCEPT !.status = "COMPLETED"],
     [Task(i, "", "notes", "MEDIUM", Some(NoDatetime), <<>>, 1, 1)
         EXCEPT !.status = "IN_PROGRESS"],
     Task(i, "REPORT", "Write it", "LOW",
          Some([day |-> 0 - 1, sec |-> 0, us |-> 0]), <<>>, 2, 2)}

\* The dicts of n tasks added in turn, each as in ReadTasks.
ReadStores(n) ==
    {[i \in 1..n |-> [key |-> i, val |-> f[i]]] :
        f \in {g \in [1..n -> UNION {ReadTasks(i) : i \in 1..n}] :
                  \A i \in 1..n : g[i].id = i}}

\* The queries passed to search_tasks.
Queries == {"", "report", "REPORT", "Team", "xyz"}

\* A store after add_task and update_task calls, saved.
InitRead ==
    /\ \E n \in 0..MaxId : tasks \in ReadStores(n)
    /\ next_id = Len(tasks) + 1
    /\ file = SaveDoc(tasks, next_id)
    /\ alive = TRUE
    /\ now = 2
    /\ updates = 0
    /\ ret = Call("start", 0, RetNone)
    /\ added = [i \in 1..Len(tasks) |-> i]

NextRead ==
    \/ \E id \in Ids : get_task(id)
    \/ get_all_tasks
    \/ \E status \in StatusMembers : get_tasks_by_status(status)
    \/ \E priority \in PriorityMembers : get_tasks_by_priority(priority)
    \/ \E query \in Queries : search_tasks(query)
    \/ get_overdue_tasks
    \/ get_tasks_due_this_week
    \/ count
    \/ get_stats

SpecRead == InitRead /\ [][NextRead]_vars

ReadOps ==
    {"get_task", "get_all_tasks", "get_tasks_by_status",
     "get_tasks_by_priority", "search_tasks", "get_overdue_tasks",
     "get_tasks_due_this_week", "count", "get_stats"}

\* C21: get_task, get_all_tasks, get_tasks_by_status, get_tasks_by_priority,
\* search_tasks, get_overdue_tasks, get_tasks_due_this_week, count and
\* get_stats change neither the collection, nor a field of a task, nor the
\* counter, nor the file.
C21_ReadsArePure ==
    [][ret'.op \in ReadOps => UNCHANGED <<tasks, next_id, file>>]_vars

\* get_task has returned one of two tasks, and the store and the file are
\* as saved.
C21_Witness ==
    /\ ret.op = "get_task"
    /\ ret.result.kind = "Task"
    /\ Len(tasks) = 2
    /\ next_id = 3
    /\ file = SaveDoc(tasks, next_id)

\* Record r, an object, holds a priority or status token that is no token
\* of the enum.
BadToken(r) ==
    /\ r.shape = "object"
    /\ \/ r.priority \notin {"low", "medium", "high"}
       \/ r.status \notin {"pending", "in_progress", "completed"}

\* C22: a record whose priority or status token is none of the defined
\* tokens makes the load fail, no record of the file ending in the store
\* under another member; and in every state each stored task's priority is
\* LOW, MEDIUM or HIGH and its status PENDING, IN_PROGRESS or COMPLETED.
C22_NoEnumDefault ==
    /\ \A i \in 1..Len(tasks) :
         /\ tasks[i].val.priority \in {"LOW", "MEDIUM", "HIGH"}
         /\ tasks[i].val.status \in {"PENDING", "IN_PROGRESS", "COMPLETED"}
    /\ (/\ ret.op = "__init__"
        /\ file.top = "object" /\ "tasks" \in file.keys
        /\ file.tasks_t = "array"
        /\ \E i \in 1..Len(file.tasks) : BadToken(file.tasks[i])) =>
            /\ ret.result.kind # "raise"
            /\ tasks = <<>>
            /\ next_id = 1

\* A store has been built on a file whose second record has a priority
\* token that is no token.
C22_Witness ==
    /\ ret.op = "__init__"
    /\ alive
    /\ Len(file.tasks) = 2
    /\ file.tasks[2].priority = "urgent"
    /\ file.next_id = 3
    /\ tasks = <<>>
    /\ next_id = 1

\* ------------------------------------------------- a client's session

\* The defaults of add_task's keyword arguments (tags=None is stored as []).
AddDefaults ==
    [title |-> "", description |-> "", priority |-> "MEDIUM",
     tags |-> <<>>, due_date |-> NoneDatetime]

\* A client on a fresh store: add_task("Write report", priority=HIGH), then
\* add_task("Email team"), then update_task(1, status=IN_PROGRESS), then
\* delete_task(2), then get_all_tasks and get_stats; between its calls it
\* may look a task up, count, or restart the program on the same file.
NextSession ==
    \/ /\ added = <<>>
       /\ add_task([AddDefaults EXCEPT !.title = "Write report",
                                       !.priority = "HIGH"])
    \/ /\ Len(added) = 1
       /\ add_task([AddDefaults EXCEPT !.title = "Email team"])
    \/ /\ Len(added) = 2 /\ updates = 0
       /\ update_task(1, [NoUpdate EXCEPT !.status = Some("IN_PROGRESS")])
    \/ /\ updates = 1 /\ DictHas(tasks, 2)
       /\ delete_task(2)
    \/ /\ updates = 1 /\ ~DictHas(tasks, 2)
       /\ (get_all_tasks \/ get_stats)
    \/ \E id \in Ids : get_task(id)
    \/ count
    \/ TaskStore_init

SpecSession == Init /\ [][NextSession]_vars

\* C23: on a fresh store add_task("Write report", priority=HIGH) returns
\* id 1 and add_task("Email team") id 2; after update_task(1,
\* status=IN_PROGRESS) and delete_task(2), get_all_tasks is task 1 alone,
\* IN_PROGRESS and HIGH, and get_stats reports total 1, in_progress 1,
\* high 1 and 0 for every other status and priority.
C23_Scenario ==
    /\ ret.op = "add_task" => ret.result.n = Len(added)
    /\ Len(added) >= 1 => added[1] = 1
    /\ Len(added) >= 2 => added[2] = 2
    /\ ret.op = "get_all_tasks" =>
         /\ ret.result.ids = <<1>>
         /\ Len(tasks) = 1
         /\ tasks[1].val.id = 1
         /\ tasks[1].val.title = "Write report"
         /\ tasks[1].val.status = "IN_PROGRESS"
         /\ tasks[1].val.priority = "HIGH"
    /\ ret.op = "get_stats" =>
         /\ ret.result.stats.total = 1
         /\ ret.result.stats.by_status =
              [pending |-> 0, in_progress |-> 1, completed |-> 0]
         /\ ret.result.stats.by_priority =
              [high |-> 1, medium |-> 0, low |-> 0]

\* The session has come to its last call, get_stats.
C23_Witness ==
    /\ ret.op = "get_stats"
    /\ added = <<1, 2>>
    /\ updates = 1
    /\ ~DictHas(tasks, 2)
    /\ ret.result.stats.total = 1

\* C24: clear_all returns the number of tasks the store held before the
\* call, leaves the store empty, writes the file, which then holds the
\* empty collection, and leaves the counter as it was.
C24_ClearAll ==
    [][ret'.op = "clear_all" =>
          /\ ret'.result = RetInt(Len(tasks))
          /\ tasks' = <<>>
          /\ next_id' = next_id
          /\ file' = SaveDoc(<<>>, next_id)]_vars

\* clear_all has removed two tasks and the counter is still 3, also in the
\* file.
C24_Witness ==
    /\ ret.op = "clear_all"
    /\ ret.result.n = 2
    /\ tasks = <<>>
    /\ next_id = 3
    /\ file.next_id = 3
    /\ file.tasks = <<>>

\* The one-character strings a and b are the same character or the two
\* cases of one letter.
SameLetter(a, b) ==
    \/ a = b
    \/ \E i \in 1..Len(UpperLetters) :
         {a, b} = {SubSeq(UpperLetters, i, i), SubSeq(LowerLetters, i, i)}

\* String q occurs in string str when case is ignored.
OccursIgnoringCase(q, str) ==
    \E i \in 1..(Len(str) - Len(q) + 1) :
        \A k \in 1..Len(q) :
            SameLetter(SubSeq(q, k, k), SubSeq(str, i + k - 1, i + k - 1))

\* C25: search_tasks(query) returns exactly the tasks whose title or
\* description contains the query when case is ignored, each once and in
\* the store's order; with the empty query it returns every task.
C25_SearchExact ==
    ret.op = "search_tasks" =>
        /\ ret.result.ids =
             SelectSeq(Keys(tasks),
                 LAMBDA k : \/ OccursIgnoringCase(ret.query, DictGet(tasks, k).title)
                            \/ OccursIgnoringCase(ret.query,
                                                  DictGet(tasks, k).description))
        /\ ret.query = "" => ret.result.ids = Keys(tasks)

\* search_tasks("REPORT") has found "Write report" by its title and another
\* task by its description "Weekly REPORT".
C25_Witness ==
    /\ ret.op = "search_tasks"
    /\ ret.query = "REPORT"
    /\ ret.result.ids = <<1, 2>>
    /\ tasks[1].val.title = "Write report"
    /\ tasks[2].val.description = "Weekly REPORT"

\* ------------------------------------------------------ gemini_service.py

\* Task.to_dict(): the projection handed to the advisory service; the due
\* date as "%Y-%m-%d", the timestamps as "%Y-%m-%d %H:%M".
to_dict(task) ==
    [id |-> task.id,
     title |-> task.title,
     description |-> task.description,
     priority |-> Priority_value(task.priority),
     status |-> Status_value(task.status),
     due_date |-> IF task.due_date.some
                  THEN JString(<<task.due_date.v.day>>) ELSE JNull,
     created_at |-> JString(<<task.created_at.day, task.created_at.sec \div 60>>),
     updated_at |-> JString(<<task.updated_at.day, task.updated_at.sec \div 60>>),
     tags |-> task.tags]

\* GeminiService(): lib says the import of google.generativeai worked, key
\* that an API key was passed or is in the environment, configured that
\* genai.configure and GenerativeModel raised nothing.
GeminiService(lib, key, configured) ==
    IF lib /\ key /\ configured
    THEN [is_configured |-> TRUE, model |-> TRUE]
    ELSE [is_configured |-> FALSE, model |-> FALSE]

is_available(service) == service.is_configured /\ service.model

\* What the remote call does: it returns a response with text, it raises,
\* or it returns a response whose .text raises.
Remotes == {"text", "raises", "no_text"}

\* A string returned.
RetStr(str) == [kind |-> "str", flag |-> FALSE, n |-> 0, exc |-> "", text |-> str]

\* _generate(prompt) with the remote call behaving as remote.
generate(service, remote) ==
    IF ~is_available(service) THEN RetNone
    ELSE IF remote = "text" THEN RetStr("response.text")
    ELSE RetNone

\* The result of the advisory operation op; tasks_data is the list passed
\* to summarize_tasks and smart_search_help.
Advise(op, service, remote, tasks_data) ==
    IF op = "summarize_tasks" /\ tasks_data = <<>>
    THEN RetStr("No tasks to summarize.")
    ELSE IF op = "smart_search_help" /\ tasks_data = <<>>
    THEN RetStr("No tasks available to search.")
    ELSE generate(service, remote)

AdvisoryOps ==
    {"suggest_task_improvement", "recommend_priority", "break_down_task",
     "summarize_tasks", "smart_search_help", "daily_motivation"}

\* gemini_service = GeminiService(): the call record holds the service.
GeminiService_init ==
    /\ \E lib \in BOOLEAN, key \in BOOLEAN, configured \in BOOLEAN :
         ret' = [op |-> "GeminiService", id |-> 0, result |-> RetNone,
                 service |-> GeminiService(lib, key, configured),
                 remote |-> "text", tasks_data |-> <<>>]
    /\ UNCHANGED <<tasks, next_id, file, alive, now, updates, added>>

\* An advisory operation on the service built before, as the CLI calls it:
\* with the text of a task, or with the to_dict of every task of the store.
advisory(op) ==
    /\ "service" \in DOMAIN ret
    /\ \E remote \in Remotes :
         LET tasks_data == [i \in 1..Len(tasks) |-> to_dict(tasks[i].val)]
         IN  ret' = [op |-> op, id |-> 0,
                     result |-> Advise(op, ret.service, remote, tasks_data),
                     service |-> ret.service,
                     remote |-> remote,
                     tasks_data |-> tasks_data]
    /\ UNCHANGED <<tasks, next_id, file, alive, now, updates, added>>

NextAdvisory ==
    \/ GeminiService_init
    \/ \E op \in AdvisoryOps : advisory(op)

SpecAdvisory == InitRead /\ [][NextAdvisory]_vars

\* C26: when the service is not configured or the remote call raises,
\* every advisory operation returns None, whatever it was passed.
C26_AdvisoryUnavailable ==
    (/\ ret.op \in AdvisoryOps
     /\ ~is_available(ret.service) \/ ret.remote # "text") =>
        ret.result = RetNone

\* ------------------------------------- task_manager.py (in-memory variant)

\* The in-memory variant keeps its tasks in the module global `tasks`, a
\* name bound to a list object, and its counter in the global next_id. In
\* SpecDemo the variable tasks is the reference bound to the global name
\* `tasks`, next_id is the global next_id, and ret carries, next to the
\* last call, the list objects that exist (heap[r] is the content of object
\* r) and the reference bound to the name `tasks` in the client module that
\* did "from task_manager import tasks" (0 before the import).

\* The list literal of load_sample_data.
sample_tasks ==
    <<
     [id |-> 1, title |-> "Complete project proposal",
      description |-> "Write and submit the Q1 project proposal document with budget estimates",
      status |-> "Completed", priority |-> "High"],
     [id |-> 2, title |-> "Review pull requests",
      description |-> "Review pending PRs from team members on the main repository",
      status |-> "In Progress", priority |-> "High"],
     [id |-> 3, title |-> "Update documentation",
      description |-> "Update the API documentation with new endpoints and examples",
      status |-> "In Progress", priority |-> "Medium"],
     [id |-> 4, title |-> "Fix login bug",
      description |-> "Investigate and fix the authentication timeout issue reported by users",
      status |-> "Pending", priority |-> "High"],
     [id |-> 5, title |-> "Team meeting preparation",
      description |-> "Prepare slides and agenda for weekly team sync meeting",
      status |-> "Pending", priority |-> "Medium"],
     [id |-> 6, title |-> "Database optimization",
      description |-> "Analyze slow queries and add necessary indexes to improve performance",
      status |-> "Pending", priority |-> "Medium"],
     [id |-> 7, title |-> "Write unit tests",
      description |-> "Add unit tests for the new payment processing module",
      status |-> "Pending", priority |-> "Low"],
     [id |-> 8, title |-> "Organize code repository",
      description |-> "Clean up unused branches and update README files",
      status |-> "Completed", priority |-> "Low"]
    >>

\* What the user types into add_task: a title and a priority.
DemoInputs ==
    {[title |-> "", priority |-> "High"],
     [title |-> "Call Bob", priority |-> "Low"]}

\* The module as imported: tasks = [] and next_id = 1; no client yet.
InitDemo ==
    /\ tasks = 1
    /\ next_id = 1
    /\ ret = [op |-> "import task_manager", id |-> 0, result |-> RetNone,
              heap |-> << <<>> >>, client |-> 0]
    /\ file = NoFile
    /\ alive = FALSE
    /\ now = 1
    /\ updates = 0
    /\ added = <<>>

\* from task_manager import tasks: the client's name `tasks` is bound to the
\* object the global is bound to now.
import_tasks ==
    /\ ret' = [ret EXCEPT !.op = "from task_manager import tasks",
                          !.result = RetNone, !.client = tasks]
    /\ UNCHANGED <<tasks, next_id, file, alive, now, updates, added>>

\* load_sample_data(): a new list object is built and the global names
\* tasks and next_id are bound anew; no list object is changed.
load_sample_data ==
    /\ Len(ret.heap) < MaxId
    /\ ret' = [ret EXCEPT !.op = "load_sample_data", !.result = RetNone,
                          !.heap = Append(ret.heap, sample_tasks)]
    /\ tasks' = Len(ret'.heap)
    /\ next_id' = Len(sample_tasks) + 1
    /\ UNCHANGED <<file, alive, now, updates, added>>

\* add_task() of task_manager: an empty title creates nothing; else the new
\* task is appended to the list object in place and the counter moves on.
task_manager_add_task(in) ==
    /\ Len(added) < MaxId
    /\ IF in.title = ""
       THEN /\ ret' = [ret EXCEPT !.op = "add_task", !.result = RetNone]
            /\ UNCHANGED <<next_id, added>>
       ELSE /\ ret' = [ret EXCEPT
                 !.op = "add_task", !.result = RetNone,
                 !.heap[tasks] = Append(@,
                     [id |-> next_id, title |-> in.title,
                      description |-> "No description provided",
                      status |-> "Pending", priority |-> in.priority])]
            /\ next_id' = next_id + 1
            /\ added' = Append(added, next_id)
    /\ UNCHANGED <<tasks, file, alive, now, updates>>

\* delete_task() of task_manager: tasks.remove(task) for the first task
\* with the id typed, in place; nothing when there is none.
task_manager_delete_task(id) ==
    /\ ret' = [ret EXCEPT
          !.op = "delete_task", !.result = RetNone,
          !.heap[tasks] =
              IF \E i \in 1..Len(@) : @[i].id = id
              THEN LET i == CHOOSE j \in 1..Len(@) :
                                /\ @[j].id = id
                                /\ \A k \in 1..(j - 1) : @[k].id # id
                   IN  SubSeq(@, 1, i - 1) \o SubSeq(@, i + 1, Len(@))
              ELSE @]
    /\ UNCHANGED <<tasks, next_id, file, alive, now, updates, added>>

NextDemo ==
    \/ import_tasks
    \/ load_sample_data
    \/ \E in \in DemoInputs : task_manager_add_task(in)
    \/ \E id \in {1, 4} : task_manager_delete_task(id)

SpecDemo == InitDemo /\ [][NextDemo]_vars

\* C27: after load_sample_data() the list that a client imported from
\* task_manager before the call holds the 8 sample tasks, ids 1..8, its
\* element at index 3 task #4, and next_id is 9.
C27_ImportedListLoaded ==
    (ret.op = "load_sample_data" /\ ret.client # 0) =>
        /\ next_id = 9
        /\ Len(ret.heap[ret.client]) = 8
        /\ \A i \in 1..8 : ret.heap[ret.client][i].id = i
        /\ ret.heap[ret.client][3 + 1].id = 4

\* C28: in every state reached from a store without a file by add_task,
\* update_task, delete_task, clear_all and restarts on the same file, each
\* task is stored under its own id and the counter is greater than every
\* id in the store, so add_task overwrites no task.
C28_KeysAndCounter ==
    /\ \A i \in 1..Len(tasks) :
         /\ tasks[i].val.id = tasks[i].key
         /\ tasks[i].key < next_id
    /\ ~DictHas(tasks, next_id)

\* A restart has loaded a store whose first task was deleted: task 2 under
\* key 2 and the counter 3.
C28_Witness ==
    /\ ret.op = "__init__"
    /\ Len(tasks) = 1
    /\ tasks[1].key = 2
    /\ tasks[1].val.id = 2
    /\ next_id = 3

\* ------------------------------------------------ writes that raise

\* The backing file after a _save_to_file that raised: open() raised and the
\* file is as it was, or open() had truncated it and json.dump raised, which
\* leaves a document that is incomplete.
FailedWrite(f) == {f, [NoFile EXCEPT !.top = "garbage"]}

\* A mutator that saves before it assigns: a write that raises leaves the
\* attribute as it was before the call.
kept_SaveFirst(before, assigned) == before

\* The value of an attribute a mutator has assigned by the time
\* _save_to_file raises: no except or finally clause undoes the assignment.
kept(before, assigned) == assigned

\* The calls made where writes can raise.
FailAdds ==
    {[title |-> "Write report", description |-> "", priority |-> "HIGH",
      tags |-> <<>>, due_date |-> NoneDatetime]}

FailUpdates ==
    {[NoUpdate EXCEPT !.due_date = Some(Due1)],
     [NoUpdate EXCEPT !.clear_due_date = TRUE]}

\* add_task(a) whose _save_to_file raises: nothing is returned.
add_task_raises(a) ==
    /\ alive
    /\ next_id <= MaxId
    /\ \E c1 \in Reads(now) : \E c2 \in Reads(c1) : \E f \in FailedWrite(file) :
         LET task == Task(next_id, a.title, a.description, a.priority,
                          a.due_date, a.tags, c1, c2)
         IN  /\ tasks' = kept(tasks, add_task_store(tasks, next_id, task))
             /\ next_id' = kept(next_id, add_task_next_id(next_id))
             /\ file' = f
             /\ now' = c2
             /\ ret' = Call("add_task", 0, RetRaise("OSError"))
    /\ UNCHANGED <<alive, updates, added>>

\* update_task(id, u) on a stored id whose _save_to_file raises.
update_task_raises(id, u) ==
    /\ alive
    /\ DictHas(tasks, id)
    /\ updates < MaxUpdates
    /\ \E c \in Reads(now) : \E f \in FailedWrite(file) :
         LET task == update_fields(DictGet(tasks, id), u, c)
         IN  /\ tasks' = kept(tasks, DictSet(tasks, id, task))
             /\ file' = f
             /\ now' = c
             /\ ret' = Call("update_task", id, RetRaise("OSError"))
             /\ updates' = updates + 1
    /\ UNCHANGED <<next_id, alive, added>>

\* delete_task(id) on a stored id whose _save_to_file raises.
delete_task_raises(id) ==
    /\ alive
    /\ DictHas(tasks, id)
    /\ \E f \in FailedWrite(file) :
         /\ tasks' = kept(tasks, DictDel(tasks, id))
         /\ file' = f
         /\ ret' = Call("delete_task", id, RetRaise("OSError"))
    /\ UNCHANGED <<next_id, alive, now, updates, added>>

\* clear_all() whose _save_to_file raises.
clear_all_raises ==
    /\ alive
    /\ \E f \in FailedWrite(file) :
         /\ tasks' = kept(tasks, <<>>)
         /\ next_id' = clear_all_next_id(next_id)
         /\ file' = f
         /\ ret' = Call("clear_all", 0, RetRaise("OSError"))
    /\ UNCHANGED <<alive, now, updates, added>>

\* The store used where any write may raise.
NextFail ==
    \/ \E a \in FailAdds : add_task(a)
    \/ \E id \in Ids, u \in FailUpdates : update_task(id, u)
    \/ \E id \in Ids : delete_task(id)
    \/ clear_all
    \/ \E a \in FailAdds : add_task_raises(a)
    \/ \E id \in Ids, u \in FailUpdates : update_task_raises(id, u)
    \/ \E id \in Ids : delete_task_raises(id)
    \/ clear_all_raises

SpecFail == Init /\ [][NextFail]_vars

\* A mutator has raised out of its write.
WriteRaised == ret'.result = RetRaise("OSError")

\* The collection and the counter hold what the call assigned before its
\* write.
KeptChange ==
    /\ ret'.op = "add_task" =>
         /\ next_id' = next_id + 1
         /\ Len(tasks') = Len(tasks) + 1
         /\ DictHas(tasks', next_id)
         /\ DictGet(tasks', next_id).id = next_id
         /\ DictGet(tasks', next_id).status = "PENDING"
    /\ ret'.op = "update_task" =>
         /\ next_id' = next_id
         /\ Keys(tasks') = Keys(tasks)
         /\ DictGet(tasks', ret'.id).updated_at = Instant(now')
         /\ \E u \in FailUpdates :
              DictGet(tasks', ret'.id).due_date
                  = update_due_date(DictGet(tasks, ret'.id).due_date, u)
    /\ ret'.op = "delete_task" =>
         /\ next_id' = next_id
         /\ DictHas(tasks, ret'.id)
         /\ tasks' = DictDel(tasks, ret'.id)
    /\ ret'.op = "clear_all" =>
         /\ next_id' = next_id
         /\ tasks' = <<>>

\* C29, as the claim states it: after a mutator whose write raised, the file
\* is not the document of the collection and the counter in memory.
C29_FileNeverMatches ==
    [][WriteRaised => file' # SaveDoc(tasks', next_id')]_vars

\* C29: a mutator whose write raises leaves the exception to its caller and
\* the collection and the counter as it assigned them; the file keeps its
\* old content or is left incomplete (a restart then starts empty), so it
\* is no longer the document of memory when it was before the call and the call changed the collection
\* or the counter.
C29_NoRollback ==
    [][WriteRaised =>
         /\ ret'.op \in {"add_task", "update_task", "delete_task", "clear_all"}
         /\ KeptChange
         /\ file' # file =>
              LoadFromFile(file') = [tasks |-> <<>>, next_id |-> 1, exc |-> ""]
         /\ (file = SaveDoc(tasks, next_id)
             /\ <<tasks', next_id'>> # <<tasks, next_id>>)
                => file' # SaveDoc(tasks', next_id')]_vars

\* add_task has raised out of its write on a saved store of one task: the
\* second task and the counter 3 are in memory, the file still holds the
\* one task and the counter 2.
C29_Witness ==
    /\ ret = Call("add_task", 0, RetRaise("OSError"))
    /\ Len(tasks) = 2
    /\ next_id = 3
    /\ file = SaveDoc(<<tasks[1]>>, 2)

\* ------------------------------------------- a store that holds tasks

\* The calls of update_task on the store that holds tasks.
FrameUpdates ==
    {[NoUpdate EXCEPT !.status = Some("IN_PROGRESS")],
     [NoUpdate EXCEPT !.title = Some(""), !.description = Some("later"),
                      !.priority = Some("MEDIUM"), !.tags = Some(<<"z">>)]}

\* The dict after three calls of add_task at the first reading of the clock.
FrameStore ==
    <<[key |-> 1, val |-> Task(1, "Write report", "", "HIGH", NoneDatetime,
                               <<>>, 1, 1)],
      [key |-> 2, val |-> Task(2, "", "notes", "LOW", Some(Due1),
                               <<"x", "y">>, 1, 1)],
      [key |-> 3, val |-> Task(3, "Write report", "", "HIGH", NoneDatetime,
                               <<>>, 1, 1)]>>

\* The program after it has added three tasks.
InitFrame ==
    /\ tasks = FrameStore
    /\ next_id = 4
    /\ file = SaveDoc(tasks, next_id)
    /\ alive = TRUE
    /\ now = 1
    /\ updates = 0
    /\ ret = Call("add_task", 0, RetTask(FrameStore[3].val))
    /\ added = <<>>

\* add_task(a) on the store that holds tasks; added counts the calls made
\* since.
add_task_more(a) ==
    /\ alive
    /\ Len(added) + 1 < MaxId
    /\ \E c1 \in Reads(now) : \E c2 \in Reads(c1) :
         LET task == Task(next_id, a.title, a.description, a.priority,
                          a.due_date, a.tags, c1, c2)
         IN  /\ tasks' = add_task_store(tasks, next_id, task)
             /\ next_id' = add_task_next_id(next_id)
             /\ file' = save_to_file(tasks', next_id')
             /\ now' = c2
             /\ ret' = Call("add_task", 0, RetTask(task))
             /\ added' = Append(added, task.id)
    /\ UNCHANGED <<alive, updates>>

NextFrame ==
    \/ \E a \in FailAdds : add_task_more(a)
    \/ \E id \in Ids, u \in FrameUpdates : update_task(id, u)
    \/ \E id \in Ids : delete_task(id)

SpecFrame == InitFrame /\ [][NextFrame]_vars

\* The entries of dict d under keys other than id, in their order.
Others(d, id) == SelectSeq(d, LAMBDA e : e.key # id)

\* C30: add_task, update_task(id, ...) and delete_task(id) leave every task
\* under another id than the one created, updated or deleted with the same
\* nine fields, updated_at among them, and the same position relative to
\* the other such tasks in get_all_tasks.
C30_OthersUntouched ==
    [][ret'.op \in {"add_task", "update_task", "delete_task"} =>
         LET id == IF ret'.op = "add_task" THEN ret'.result.n ELSE ret'.id
         IN  /\ Others(tasks', id) = Others(tasks, id)
             /\ SelectSeq(DictValues(tasks'), LAMBDA t : t.id # id)
                  = SelectSeq(DictValues(tasks), LAMBDA t : t.id # id)
             /\ \A i \in 1..Len(tasks) :
                  tasks[i].key # id =>
                      /\ DictHas(tasks', tasks[i].key)
                      /\ DictGet(tasks', tasks[i].key) = tasks[i].val]_vars

\* update_task has updated task 2 at a later reading of the clock, between
\* tasks 1 and 3, which were stamped at the first.
C30_Witness ==
    /\ ret.op = "update_task"
    /\ ret.id = 2
    /\ ret.result.kind = "Task"
    /\ Keys(tasks) = <<1, 2, 3>>
    /\ tasks[2].val.updated_at = Instant(2)
    /\ tasks[1].val.updated_at = Instant(1)
    /\ tasks[3].val.updated_at = Instant(1)

====
